---- MODULE Spec2Model ----
(***************************************************************************)
(* MoveToGive: the workout-completion and weekly-reward engine, the badge  *)
(* engine and the movement / friend stores, modelled as a state machine    *)
(* over the single persisted document "walktogive_data".                   *)
(***************************************************************************)
EXTENDS Integers, Sequences, FiniteSets, TLC

VARIABLES
    store,   \* the document held by localStorage under STORAGE_KEY
    host,    \* the JavaScript host: timezone offset and legacy Date.parse
    ret      \* name and return value of the last service call

vars == <<store, host, ret>>

(***************************************************************************)
(* JavaScript values that reach the reward range: numbers, null, NaN and   *)
(* undefined (an absent property).                                         *)
(***************************************************************************)
Num(n) == [t |-> "number", v |-> n]
Null == [t |-> "null", v |-> 0]
NaN == [t |-> "NaN", v |-> 0]
Undefined == [t |-> "undefined", v |-> 0]

IsNum(x) == x.t = "number"

\* ToNumber: null -> 0, undefined -> NaN
ToNumber(x) ==
    CASE x.t = "number" -> x
      [] x.t = "null" -> Num(0)
      [] OTHER -> NaN

\* a > b and a < b of JavaScript: false as soon as one side is NaN
JsGT(a, b) ==
    LET x == ToNumber(a)
        y == ToNumber(b)
    IN  IsNum(x) /\ IsNum(y) /\ x.v > y.v

JsLT(a, b) ==
    LET x == ToNumber(a)
        y == ToNumber(b)
    IN  IsNum(x) /\ IsNum(y) /\ x.v < y.v

JsGE(a, b) ==
    LET x == ToNumber(a)
        y == ToNumber(b)
    IN  IsNum(x) /\ IsNum(y) /\ x.v >= y.v

JsLE(a, b) ==
    LET x == ToNumber(a)
        y == ToNumber(b)
    IN  IsNum(x) /\ IsNum(y) /\ x.v <= y.v

\* JSON.stringify followed by JSON.parse, on one property value:
\* NaN is written as null, undefined drops the property
JsonRoundTrip(x) == IF x.t = "NaN" THEN Null ELSE x

\* truthiness of a stored number
Truthy(n) == n # 0

(***************************************************************************)
(* Calendar arithmetic of the Date object (proleptic Gregorian).           *)
(***************************************************************************)
\* days from 1970-01-01 to year y, month m (1..12), day d
DaysFromCivil(y, m, d) ==
    LET yy == IF m <= 2 THEN y - 1 ELSE y
        era == yy \div 400
        yoe == yy - era * 400
        mp == IF m > 2 THEN m - 3 ELSE m + 9
        doy == (153 * mp + 2) \div 5 + d - 1
        doe == yoe * 365 + yoe \div 4 - yoe \div 100 + doy
    IN  era * 146097 + doe - 719468

CivilFromDays(z) ==
    LET zz == z + 719468
        era == zz \div 146097
        doe == zz - era * 146097
        yoe == (doe - doe \div 1460 + doe \div 36524 - doe \div 146096) \div 365
        doy == doe - (365 * yoe + yoe \div 4 - yoe \div 100)
        mp == (5 * doy + 2) \div 153
        d == doy - (153 * mp + 2) \div 5 + 1
        m == IF mp < 10 THEN mp + 3 ELSE mp - 9
        y == yoe + era * 400 + (IF m <= 2 THEN 1 ELSE 0)
    IN  [y |-> y, m |-> m, d |-> d]

\* new Date(year, monthIndex, day) in local time: out-of-range months and days
\* roll over. The result is the local calendar date (month m is 1..12).
NewDate(year, monthIndex, day) ==
    LET y == year + monthIndex \div 12
        m == (monthIndex % 12) + 1
    IN  CivilFromDays(DaysFromCivil(y, m, 1) + day - 1)

\* Date.prototype.getDay: 0 = Sunday; 1970-01-01 was a Thursday
GetDay(date) == (DaysFromCivil(date.y, date.m, date.d) + 4) % 7

\* Math.floor(a / 7) + 1 in the place of Math.ceil(a / 7)
FloorDiv7PlusOne(a) == a \div 7 + 1

\* Math.ceil(a / 7) for an integer a
CeilDiv7(a) == (a + 6) \div 7

getWeekNumberInMonth(date) ==
    LET firstDay == NewDate(date.y, date.m - 1, 1)
        firstDayOfWeek == GetDay(firstDay)
        dayOfMonth == date.d
    IN  CeilDiv7(firstDayOfWeek + dayOfMonth)

\* new Date(year, month, 0).getDate() with month 1-based: the month's length
DaysInMonth(year, month) == NewDate(year, month, 0).d

(***************************************************************************)
(* Date keys and week keys. A date key is the string "Y-M-D"; pad says     *)
(* that month and day are written with two digits ("2026-01-05"). Keys     *)
(* whose month and day both have two digits anyway read the same either    *)
(* way and are kept with pad = FALSE.                                      *)
(***************************************************************************)
DateKey(y, m, d) == [y |-> y, m |-> m, d |-> d, pad |-> FALSE]
PaddedKey(y, m, d) == [y |-> y, m |-> m, d |-> d, pad |-> (m < 10 \/ d < 10)]

\* `${year}-${month}-week${weekNum}`, from the numbers
WeekKey(year, month, weekNum) == [y |-> year, m |-> month, w |-> weekNum]

\* the string has the ISO form YYYY-MM-DD
IsIsoDateString(k) == k.pad \/ (k.m >= 10 /\ k.d >= 10)

\* new Date(string).getTime(), in hours since the epoch, as a JavaScript
\* number. The ISO date-only form is UTC midnight; any other form goes to the
\* host's legacy parser: local midnight, or an invalid date (NaN).
ParseDateString(h, k) ==
    LET days == DaysFromCivil(k.y, k.m, k.d)
    IN  IF IsIsoDateString(k) THEN Num(days * 24)
        ELSE IF h.legacy = "local" THEN Num(days * 24 - h.tz)
        ELSE NaN

(***************************************************************************)
(* The persisted document. A collection property that is absent reads as   *)
(* the empty collection in every service (storedData.x || {}, data.x ||    *)
(* []), so the model keeps absent collections empty; the scalar properties *)
(* minReward, maxReward and inviteCode are Undefined / NoCode when absent. *)
(* exists is FALSE while localStorage holds no item (storage.get is null). *)
(***************************************************************************)
EmptyMap == [k \in {} |-> 0]

NoCode == "undefined"

EmptyDoc ==
    [exists |-> FALSE,
     completedDays |-> {},
     weeklyRewards |-> EmptyMap,
     minReward |-> Undefined,
     maxReward |-> Undefined,
     friends |-> <<>>,
     movements |-> <<>>,
     cheers |-> {},
     inviteCode |-> NoCode,
     unlockedBadges |-> <<>>]

\* storage.get / JSON.parse of what storage.set / JSON.stringify wrote
storageSet(data) ==
    [data EXCEPT !.exists = TRUE,
                 !.minReward = JsonRoundTrip(@),
                 !.maxReward = JsonRoundTrip(@)]

\* a write that merges the completed days the store holds into the
\* writer's document
storageSetMerged(stored, data) ==
    storageSet([data EXCEPT !.completedDays = @ \cup stored.completedDays])

\* workout.service getData: the stored document over the defaults; code is
\* the value generateInviteCode() returns for the default
getData(stored, code) ==
    [stored EXCEPT
        !.minReward = IF @ = Undefined THEN Num(1) ELSE @,
        !.maxReward = IF @ = Undefined THEN Num(5) ELSE @,
        !.inviteCode = IF @ = NoCode THEN code ELSE @]

\* a getData that returns its own service's collections only
getRawDataOwnCollections(stored) ==
    [EmptyDoc EXCEPT !.exists = stored.exists,
                     !.friends = stored.friends,
                     !.cheers = stored.cheers,
                     !.movements = stored.movements,
                     !.unlockedBadges = stored.unlockedBadges]

\* badge, friend and movement service getData: the stored document as it is
getRawData(stored) == stored

saveData(data) == storageSet(data)

(***************************************************************************)
(* randomInt(min, max) = Math.floor(Math.random() * (max - min + 1)) + min *)
(* with Math.random() in [0, 1): every value it can return.                *)
(***************************************************************************)
randomInt(min, max) ==
    LET a == ToNumber(min).v
        b == ToNumber(max).v
        k == b - a + 1
    IN  IF k > 0 THEN a .. b
        ELSE IF k = 0 THEN {a}
        ELSE (a + k) .. a

(***************************************************************************)
(* workout.service                                                         *)
(***************************************************************************)
HasKey(map, k) == k \in DOMAIN map

\* map[k] = v on an object
Put(map, k, v) == [x \in DOMAIN map \cup {k} |-> IF x = k THEN v ELSE map[x]]

\* The calendar of the years the model's dates lie in, computed once:
\* getWeekNumberInMonth(new Date(year, month - 1, day)) and the length of
\* each month.
Years == {2026}

weekNumberOfDay ==
    [year \in Years |-> [month \in 1 .. 12 |-> [day \in 1 .. 31 |->
        getWeekNumberInMonth(NewDate(year, month - 1, day))]]]

daysInMonthOf == [year \in Years |-> [month \in 1 .. 12 |-> DaysInMonth(year, month)]]

\* isWeekComplete asking for every day the bucket has instead of seven
isWeekCompleteWholeBucket(data, year, month, weekNum) ==
    LET daysInMonth == daysInMonthOf[year][month]
        bucket == {day \in 1 .. daysInMonth : weekNumberOfDay[year][month][day] = weekNum}
        counted == {day \in bucket : DateKey(year, month, day) \in data.completedDays}
    IN  bucket # {} /\ counted = bucket

\* isWeekComplete with the threshold one day short (count >= 6)
isWeekCompleteAtSix(data, year, month, weekNum) ==
    LET daysInMonth == daysInMonthOf[year][month]
        counted == {day \in 1 .. daysInMonth :
                       /\ weekNumberOfDay[year][month][day] = weekNum
                       /\ DateKey(year, month, day) \in data.completedDays}
    IN  Cardinality(counted) >= 6

isWeekComplete(data, year, month, weekNum) ==
    LET daysInMonth == daysInMonthOf[year][month]
        counted == {day \in 1 .. daysInMonth :
                       /\ weekNumberOfDay[year][month][day] = weekNum
                       /\ DateKey(year, month, day) \in data.completedDays}
    IN  Cardinality(counted) >= 7

isMovementActiveForDate(h, movement, dateKey) ==
    LET date == ParseDateString(h, dateKey)
        start == ParseDateString(h, movement.startDate)
        end == ParseDateString(h, movement.endDate)
    IN  JsGE(date, start) /\ JsLE(date, end)

Includes(seq, x) == \E i \in 1 .. Len(seq) : seq[i] = x

\* the forEach body without the line movement.totalRaised += reward
addRewardWithoutTotal(h, movement, dateKey, weekKey, reward) ==
    IF Includes(movement.members, "You") /\ isMovementActiveForDate(h, movement, dateKey)
    THEN LET before == IF HasKey(movement.weeklyContributions, weekKey)
                          /\ Truthy(movement.weeklyContributions[weekKey])
                       THEN movement.weeklyContributions[weekKey]
                       ELSE 0
         IN  [movement EXCEPT !.weeklyContributions = Put(@, weekKey, before + reward)]
    ELSE movement

\* the body of the forEach over data.movements
addReward(h, movement, dateKey, weekKey, reward) ==
    IF Includes(movement.members, "You") /\ isMovementActiveForDate(h, movement, dateKey)
    THEN LET before == IF HasKey(movement.weeklyContributions, weekKey)
                          /\ Truthy(movement.weeklyContributions[weekKey])
                       THEN movement.weeklyContributions[weekKey]
                       ELSE 0
         IN  [movement EXCEPT
                 !.weeklyContributions = Put(@, weekKey, before + reward),
                 !.totalRaised = @ + reward]
    ELSE movement

\* the week a date key is counted in: Number() of its parts, the week number
\* of new Date(year, month - 1, day)
WeekKeyOf(dateKey) ==
    WeekKey(dateKey.y, dateKey.m, weekNumberOfDay[dateKey.y][dateKey.m][dateKey.d])

\* the test without its second half (!data.weeklyRewards[weekKey])
rewardDueEveryTime(data, dateKey) ==
    LET weekKey == WeekKeyOf(dateKey)
    IN  isWeekComplete(data, weekKey.y, weekKey.m, weekKey.w)

\* whether completeWorkout(dateKey) draws a reward on the document data
\* (after the day is marked)
rewardDue(data, dateKey) ==
    LET weekKey == WeekKeyOf(dateKey)
    IN  /\ isWeekComplete(data, weekKey.y, weekKey.m, weekKey.w)
        /\ ~(HasKey(data.weeklyRewards, weekKey) /\ Truthy(data.weeklyRewards[weekKey]))

\* completeWorkout up to saveData: the document it saves. reward is the
\* value randomInt returned, used only when a reward is due.
completeWorkoutData(h, stored, dateKey, code, reward) ==
    LET data == getData(stored, code)
        marked == [data EXCEPT !.completedDays = @ \cup {dateKey}]
        weekKey == WeekKeyOf(dateKey)
    IN  IF rewardDue(marked, dateKey)
        THEN [marked EXCEPT
                 !.weeklyRewards = Put(@, weekKey, reward),
                 !.movements = [i \in 1 .. Len(@) |->
                                   addReward(h, @[i], dateKey, weekKey, reward)]]
        ELSE marked

\* the object completeWorkout returns
completeWorkoutResult(stored, dateKey, code, reward) ==
    LET data == getData(stored, code)
        marked == [data EXCEPT !.completedDays = @ \cup {dateKey}]
        weekKey == WeekKeyOf(dateKey)
    IN  [op |-> "completeWorkout",
         success |-> TRUE,
         weekCompleted |-> isWeekComplete(marked, weekKey.y, weekKey.m, weekKey.w),
         reward |-> IF rewardDue(marked, dateKey) THEN Num(reward) ELSE Null,
         weekKey |-> weekKey,
         wrote |-> TRUE]

\* the guard without its first test (min > max)
rangeRejectedOnlyBelowOne(min, max) == JsLT(min, Num(1))

\* the guard without its second test (min < 1)
rangeRejectedOnlyInverted(min, max) == JsGT(min, max)

\* updateRewardRange: the guard that rejects a range
rangeRejected(min, max) == JsGT(min, max) \/ JsLT(min, Num(1))

updateRewardRangeData(stored, min, max, code) ==
    [getData(stored, code) EXCEPT !.minReward = min, !.maxReward = max]

\* Object.keys(data.completedDays).length
getTotalCompletedDays(stored) == Cardinality(stored.completedDays)

RECURSIVE SumValues(_, _)
SumValues(map, keys) ==
    IF keys = {} THEN 0
    ELSE LET k == CHOOSE x \in keys : TRUE
         IN  map[k] + SumValues(map, keys \ {k})

\* Object.values(data.weeklyRewards).reduce((sum, val) => sum + val, 0)
getTotalEarnings(stored) == SumValues(stored.weeklyRewards, DOMAIN stored.weeklyRewards)

\* the place of a month's decimal digits followed by "-" in string order:
\* "1-" < "10-" < "11-" < "12-" < "2-" < ... < "9-"
MonthStringRank(m) ==
    CASE m = 1 -> 1
      [] m >= 10 -> m - 8
      [] OTHER -> m + 3

\* string order of two week keys "Y-M-weekN" (four-digit years, N one digit)
WeekKeyStringLess(a, b) ==
    \/ a.y < b.y
    \/ a.y = b.y /\ MonthStringRank(a.m) < MonthStringRank(b.m)
    \/ a.y = b.y /\ a.m = b.m /\ a.w < b.w

\* getCurrentStreak: keys sorted and reversed, counted up to the first falsy
\* value
getCurrentStreak(stored) ==
    LET keys == DOMAIN stored.weeklyRewards
        falsy == {k \in keys : ~Truthy(stored.weeklyRewards[k])}
        \* the keys that come before every falsy key in descending order
        counted == {k \in keys : \A f \in falsy : WeekKeyStringLess(f, k)}
    IN  Cardinality(counted)

(***************************************************************************)
(* movement.service. A form is what createMovement receives: the trimmed   *)
(* lengths of name and description, whether a charity is chosen, and the   *)
(* two dates of the date inputs (YYYY-MM-DD). Of a movement the model      *)
(* keeps the properties the services read: id, dates, creator, members,    *)
(* totalRaised and weeklyContributions.                                    *)
(***************************************************************************)
isValidMovementName(len) == ~(len = 0) /\ ~(len < 3) /\ ~(len > 100)

isValidMovementDescription(len) == ~(len = 0) /\ ~(len < 10) /\ ~(len > 1000)

isValidDateRange(h, startDate, endDate) ==
    LET start == ParseDateString(h, startDate)
        end == ParseDateString(h, endDate)
    IN  /\ IsNum(start) /\ IsNum(end)
        /\ ~JsLT(end, start)

createMovementAccepts(h, form) ==
    /\ isValidMovementName(form.nameLen)
    /\ isValidMovementDescription(form.descLen)
    /\ isValidDateRange(h, form.startDate, form.endDate)
    /\ form.charity

\* the movement object createMovement builds; id stands for Date.now()
newMovement(form, id) ==
    [id |-> id,
     startDate |-> form.startDate,
     endDate |-> form.endDate,
     creator |-> "You",
     members |-> <<"You">>,
     totalRaised |-> 0,
     weeklyContributions |-> EmptyMap]

\* data.movements.find(m => m.id === movementId): its index, 0 when absent
findMovement(data, movementId) ==
    IF \E i \in 1 .. Len(data.movements) : data.movements[i].id = movementId
    THEN CHOOSE i \in 1 .. Len(data.movements) :
            /\ data.movements[i].id = movementId
            /\ \A j \in 1 .. i - 1 : data.movements[j].id # movementId
    ELSE 0

\* members.indexOf('You'), 1-based; 0 when absent
indexOfYou(members) ==
    IF Includes(members, "You")
    THEN CHOOSE i \in 1 .. Len(members) :
            members[i] = "You" /\ \A j \in 1 .. i - 1 : members[j] # "You"
    ELSE 0

\* seq.splice(i, 1)
RemoveAt(seq, i) == [j \in 1 .. Len(seq) - 1 |-> IF j < i THEN seq[j] ELSE seq[j + 1]]

joinMovementData(stored, movementId) ==
    LET data == getRawData(stored)
        i == findMovement(data, movementId)
    IN  [data EXCEPT !.movements[i].members = Append(@, "You")]

\* the guard without the test of members.includes('You')
joinMovementAcceptsMember(stored, movementId) ==
    findMovement(getRawData(stored), movementId) # 0

joinMovementAccepts(stored, movementId) ==
    LET i == findMovement(getRawData(stored), movementId)
    IN  i # 0 /\ ~Includes(stored.movements[i].members, "You")

leaveMovementData(stored, movementId) ==
    LET data == getRawData(stored)
        i == findMovement(data, movementId)
    IN  [data EXCEPT !.movements[i].members = RemoveAt(@, indexOfYou(@))]

leaveMovementAccepts(stored, movementId) ==
    LET i == findMovement(getRawData(stored), movementId)
    IN  i # 0 /\ indexOfYou(stored.movements[i].members) # 0

addMovementContributionAccepts(stored, movementId) ==
    LET i == findMovement(getRawData(stored), movementId)
    IN  i # 0 /\ Includes(stored.movements[i].members, "You")

addMovementContributionData(stored, movementId, weekKey, amount) ==
    LET data == getRawData(stored)
        i == findMovement(data, movementId)
        m == data.movements[i]
        before == IF HasKey(m.weeklyContributions, weekKey)
                     /\ Truthy(m.weeklyContributions[weekKey])
                  THEN m.weeklyContributions[weekKey]
                  ELSE 0
    IN  [data EXCEPT
            !.movements[i].weeklyContributions = Put(@, weekKey, before + amount),
            !.movements[i].totalRaised = @ + amount]

(***************************************************************************)
(* badge.service                                                           *)
(***************************************************************************)
BADGE_DEFINITIONS ==
    << [id |-> "first_day", requirement |-> 1, type |-> "days"],
       [id |-> "week_warrior", requirement |-> 1, type |-> "weeks"],
       [id |-> "streak_starter", requirement |-> 3, type |-> "streak"],
       [id |-> "consistent_champion", requirement |-> 6, type |-> "streak"],
       [id |-> "unstoppable", requirement |-> 12, type |-> "streak"],
       [id |-> "month_master", requirement |-> 30, type |-> "days"],
       [id |-> "hundred_club", requirement |-> 100, type |-> "days"],
       [id |-> "charity_champion", requirement |-> 50, type |-> "earnings"],
       [id |-> "generous_giver", requirement |-> 100, type |-> "earnings"],
       [id |-> "movement_maker", requirement |-> 1, type |-> "movements"],
       [id |-> "social_butterfly", requirement |-> 5, type |-> "friends"],
       [id |-> "year_long", requirement |-> 365, type |-> "days"] >>

getCurrentProgress(data) ==
    [days |-> getTotalCompletedDays(data),
     weeks |-> Cardinality(DOMAIN data.weeklyRewards),
     streak |-> getCurrentStreak(data),
     earnings |-> getTotalEarnings(data),
     movements |-> Cardinality({i \in 1 .. Len(data.movements) :
                                   data.movements[i].creator = "You"}),
     friends |-> Len(data.friends)]

\* shouldUnlockBadge with a strict comparison (current > requirement)
shouldUnlockBadgeStrict(badge, progress) == progress[badge.type] > badge.requirement

shouldUnlockBadge(badge, progress) == progress[badge.type] >= badge.requirement

\* the forEach without the skip of badges that are already unlocked
RECURSIVE newlyUnlockedFromNoSkip(_, _, _)
newlyUnlockedFromNoSkip(i, unlocked, progress) ==
    IF i > Len(BADGE_DEFINITIONS) THEN <<>>
    ELSE LET badge == BADGE_DEFINITIONS[i]
         IN  IF shouldUnlockBadge(badge, progress)
             THEN <<badge.id>> \o newlyUnlockedFromNoSkip(i + 1, unlocked, progress)
             ELSE newlyUnlockedFromNoSkip(i + 1, unlocked, progress)

\* the ids of the badges the forEach pushes, definitions i .. 12, in order
RECURSIVE newlyUnlockedFrom(_, _, _)
newlyUnlockedFrom(i, unlocked, progress) ==
    IF i > Len(BADGE_DEFINITIONS) THEN <<>>
    ELSE LET badge == BADGE_DEFINITIONS[i]
         IN  IF ~Includes(unlocked, badge.id) /\ shouldUnlockBadge(badge, progress)
             THEN <<badge.id>> \o newlyUnlockedFrom(i + 1, unlocked, progress)
             ELSE newlyUnlockedFrom(i + 1, unlocked, progress)

\* checkAndUnlockBadges evaluating against an empty list instead of the
\* stored data.unlockedBadges
newlyUnlockedFromScratch(stored) ==
    LET data == getRawData(stored)
    IN  newlyUnlockedFrom(1, <<>>, getCurrentProgress(data))

\* the list checkAndUnlockBadges returns (badge ids)
newlyUnlocked(stored) ==
    LET data == getRawData(stored)
    IN  newlyUnlockedFrom(1, data.unlockedBadges, getCurrentProgress(data))

\* checkAndUnlockBadges rebuilding the list from the current progress: the
\* badges whose requirement is met now, in catalogue order
checkAndUnlockBadgesStoreRebuilt(stored) ==
    LET data == getRawData(stored)
        met == newlyUnlockedFrom(1, <<>>, getCurrentProgress(data))
    IN  IF met # data.unlockedBadges
        THEN saveData([data EXCEPT !.unlockedBadges = met])
        ELSE stored

\* the store after checkAndUnlockBadges: saved only when a badge was unlocked
checkAndUnlockBadgesStore(stored) ==
    LET data == getRawData(stored)
        new == newlyUnlocked(stored)
    IN  IF Len(new) > 0
        THEN saveData([data EXCEPT !.unlockedBadges = @ \o new])
        ELSE stored

NoBadge == "none"

\* the celebration carrying the last newly unlocked badge
celebratedLast(stored) ==
    LET new == newlyUnlocked(stored)
    IN  IF Len(new) > 0 THEN new[Len(new)] ELSE NoBadge

\* the badge whose celebration the call schedules (newlyUnlocked[0])
celebrated(stored) ==
    LET new == newlyUnlocked(stored)
    IN  IF Len(new) > 0 THEN new[1] ELSE NoBadge

(***************************************************************************)
(* friend.service. A name input carries its text, the length of its trim   *)
(* and whether it matches /^[a-zA-Z0-9\s\-_.]+$/. Of a friend the model    *)
(* keeps id and name.                                                      *)
(***************************************************************************)
isValidDisplayName(name) ==
    /\ ~(name.len = 0)
    /\ ~(name.len < 2)
    /\ ~(name.len > 50)
    /\ name.charsOk

alreadyFriend(data, name) ==
    \E i \in 1 .. Len(data.friends) : data.friends[i].name = name.text

addFriendAccepts(stored, name) ==
    isValidDisplayName(name) /\ ~alreadyFriend(getRawData(stored), name)

\* generateMockFriend; id is the value of Date.now() + Math.random(), which
\* the code takes without looking at the ids the document holds: an integer
\* of the model names one such value, and two friends created in one
\* millisecond with one random value get the same
generateMockFriend(name, id) == [id |-> id, name |-> name.text]

addFriendData(stored, name, id) ==
    LET data == getRawData(stored)
    IN  [data EXCEPT !.friends = Append(@, generateMockFriend(name, id))]

\* data.friends.findIndex(f => f.id === friendId), 1-based; 0 when absent
findFriend(data, friendId) ==
    IF \E i \in 1 .. Len(data.friends) : data.friends[i].id = friendId
    THEN CHOOSE i \in 1 .. Len(data.friends) :
            /\ data.friends[i].id = friendId
            /\ \A j \in 1 .. i - 1 : data.friends[j].id # friendId
    ELSE 0

removeFriendData(stored, friendId) ==
    LET data == getRawData(stored)
    IN  [data EXCEPT !.friends = RemoveAt(@, findFriend(data, friendId))]

\* a test that never finds the cheer key
hasCheeredNever(stored, friendId) == FALSE

\* data.cheers[`cheer-${friendId}`]
hasCheered(stored, friendId) == friendId \in stored.cheers

cheerFriendData(stored, friendId) ==
    LET data == getRawData(stored)
    IN  [data EXCEPT !.cheers = @ \cup {friendId}]

(***************************************************************************)
(* The service calls as actions. ret is what the caller sees of the call:  *)
(* its name, its return value, whether storage.set wrote the document      *)
(* (wrote), the badge                                                      *)
(* whose celebration it scheduled and, for completeWorkout and             *)
(* checkAndUnlockBadges, whether the call before it was the same call with *)
(* the same argument (again), and for the reads of the invite code, the    *)
(* code they return (inviteCode).                                          *)
(***************************************************************************)
NoDate == [y |-> 0, m |-> 0, d |-> 0, pad |-> FALSE]
NoWeek == [y |-> 0, m |-> 0, w |-> 0]

Ret(op, ok) ==
    [op |-> op,
     ok |-> ok,
     dateKey |-> NoDate,
     weekKey |-> NoWeek,
     weekCompleted |-> FALSE,
     reward |-> Null,
     newlyUnlocked |-> <<>>,
     celebration |-> NoBadge,
     wrote |-> FALSE,
     again |-> FALSE,
     inviteCode |-> NoCode]

CompleteWorkout(dateKey, code) ==
    LET data == getData(store, code)
        marked == [data EXCEPT !.completedDays = @ \cup {dateKey}]
        draws == IF rewardDue(marked, dateKey)
                 THEN randomInt(data.minReward, data.maxReward)
                 ELSE {0}
    IN  \E reward \in draws :
            LET result == completeWorkoutResult(store, dateKey, code, reward)
            IN  /\ store' = saveData(completeWorkoutData(host, store, dateKey, code, reward))
                /\ ret' = [Ret("completeWorkout", result.success) EXCEPT
                              !.dateKey = dateKey,
                              !.weekKey = result.weekKey,
                              !.weekCompleted = result.weekCompleted,
                              !.reward = result.reward,
                              !.wrote = TRUE,
                              !.again = (ret.op = "completeWorkout" /\ ret.dateKey = dateKey)]
                /\ UNCHANGED host

UpdateRewardRange(min, max, code) ==
    \/ /\ rangeRejected(min, max)
       /\ ret' = Ret("updateRewardRange", FALSE)
       /\ UNCHANGED <<store, host>>
    \/ /\ ~rangeRejected(min, max)
       /\ store' = saveData(updateRewardRangeData(store, min, max, code))
       /\ ret' = [Ret("updateRewardRange", TRUE) EXCEPT !.wrote = TRUE]
       /\ UNCHANGED host

CheckAndUnlockBadges ==
    /\ store' = checkAndUnlockBadgesStore(store)
    /\ ret' = [Ret("checkAndUnlockBadges", TRUE) EXCEPT
                  !.newlyUnlocked = newlyUnlocked(store),
                  !.celebration = celebrated(store),
                  !.wrote = Len(newlyUnlocked(store)) > 0,
                  !.again = (ret.op = "checkAndUnlockBadges")]
    /\ UNCHANGED host

\* the values Date.now() can return in createMovement: the clock has not
\* moved since the newest movement was created (the same millisecond), or
\* it has
DateNow(stored) ==
    LET ids == {stored.movements[i].id : i \in 1 .. Len(stored.movements)}
    IN  IF ids = {} THEN {1}
        ELSE LET newest == CHOOSE n \in ids : \A k \in ids : k <= n
             IN  {newest, newest + 1}

\* createMovement; now is the value Date.now() returns (the clock does not
\* run backwards), maxMovements bounds the list the model lets grow
CreateMovement(form, now, maxMovements) ==
    \/ /\ ~createMovementAccepts(host, form)
       /\ ret' = Ret("createMovement", FALSE)
       /\ UNCHANGED <<store, host>>
    \/ /\ createMovementAccepts(host, form)
       /\ Len(store.movements) < maxMovements
       /\ now \in DateNow(store)
       /\ LET data == getRawData(store)
              movement == newMovement(form, now)
              saved == saveData([data EXCEPT !.movements = Append(@, movement)])
          IN  /\ store' = checkAndUnlockBadgesStore(saved)
              /\ ret' = [Ret("createMovement", TRUE) EXCEPT
                            !.celebration = celebrated(saved),
                            !.wrote = TRUE]
       /\ UNCHANGED host

JoinMovement(movementId) ==
    \/ /\ ~joinMovementAccepts(store, movementId)
       /\ ret' = Ret("joinMovement", FALSE)
       /\ UNCHANGED <<store, host>>
    \/ /\ joinMovementAccepts(store, movementId)
       /\ store' = saveData(joinMovementData(store, movementId))
       /\ ret' = [Ret("joinMovement", TRUE) EXCEPT !.wrote = TRUE]
       /\ UNCHANGED host

LeaveMovement(movementId) ==
    \/ /\ ~leaveMovementAccepts(store, movementId)
       /\ ret' = Ret("leaveMovement", FALSE)
       /\ UNCHANGED <<store, host>>
    \/ /\ leaveMovementAccepts(store, movementId)
       /\ store' = saveData(leaveMovementData(store, movementId))
       /\ ret' = [Ret("leaveMovement", TRUE) EXCEPT !.wrote = TRUE]
       /\ UNCHANGED host

\* addMovementContribution returns nothing; ok tells whether it saved
AddMovementContribution(movementId, weekKey, amount) ==
    \/ /\ ~addMovementContributionAccepts(store, movementId)
       /\ ret' = Ret("addMovementContribution", FALSE)
       /\ UNCHANGED <<store, host>>
    \/ /\ addMovementContributionAccepts(store, movementId)
       /\ store' = saveData(addMovementContributionData(store, movementId, weekKey, amount))
       /\ ret' = [Ret("addMovementContribution", TRUE) EXCEPT !.wrote = TRUE]
       /\ UNCHANGED host

\* addFriend; id is the value Date.now() + Math.random() gives
AddFriend(name, id) ==
    \/ /\ ~addFriendAccepts(store, name)
       /\ ret' = Ret("addFriend", FALSE)
       /\ UNCHANGED <<store, host>>
    \/ /\ addFriendAccepts(store, name)
       /\ LET saved == saveData(addFriendData(store, name, id))
          IN  /\ store' = checkAndUnlockBadgesStore(saved)
              /\ ret' = [Ret("addFriend", TRUE) EXCEPT
                            !.celebration = celebrated(saved),
                            !.wrote = TRUE]
       /\ UNCHANGED host

RemoveFriend(friendId) ==
    \/ /\ findFriend(getRawData(store), friendId) = 0
       /\ ret' = Ret("removeFriend", FALSE)
       /\ UNCHANGED <<store, host>>
    \/ /\ findFriend(getRawData(store), friendId) # 0
       /\ store' = saveData(removeFriendData(store, friendId))
       /\ ret' = [Ret("removeFriend", TRUE) EXCEPT !.wrote = TRUE]
       /\ UNCHANGED host

CheerFriend(friendId) ==
    \/ /\ hasCheered(store, friendId)
       /\ ret' = Ret("cheerFriend", FALSE)
       /\ UNCHANGED <<store, host>>
    \/ /\ ~hasCheered(store, friendId)
       /\ store' = saveData(cheerFriendData(store, friendId))
       /\ ret' = [Ret("cheerFriend", TRUE) EXCEPT !.wrote = TRUE]
       /\ UNCHANGED host

\* importData: saveData(importedData), the stored document is replaced by
\* the object given, unvalidated and unmerged; it returns nothing. The
\* service exports it for the synchronisation with a backend; no page,
\* handler or service of the repository calls it, so that it is a step of
\* no specification below
ImportData(importedData) ==
    /\ store' = saveData(importedData)
    /\ ret' = [Ret("importData", TRUE) EXCEPT !.wrote = TRUE]
    /\ UNCHANGED host

(***************************************************************************)
(* Hosts: V8 and SpiderMonkey read a non-ISO date string as local time, at *)
(* a timezone offset tz (hours east of UTC); other engines give an invalid *)
(* date.                                                                   *)
(***************************************************************************)
Hosts ==
    {[legacy |-> "local", tz |-> z] : z \in {-5, 0, 1}}
        \cup {[legacy |-> "invalid", tz |-> 0]}

(***************************************************************************)
(* Inputs. The week is Sunday 4 to Saturday 10 January 2026, week 2 of its *)
(* month. The settings form passes parseInt of its two fields: an integer  *)
(* or NaN.                                                                 *)
(***************************************************************************)
MaxRangeArg == 2
MaxMovements == 1
MaxRaised == 1

WeekDates == {DateKey(2026, 1, d) : d \in 4 .. 10}

RangeArgs == {NaN} \cup {Num(n) : n \in 0 .. MaxRangeArg}

TheCode == "WALKAAAAAA"

Form(nameLen, descLen, charity, startDate, endDate) ==
    [nameLen |-> nameLen, descLen |-> descLen, charity |-> charity,
     startDate |-> startDate, endDate |-> endDate]

\* a window that opens on the week's first day and closes on its sixth, and
\* forms that createMovement rejects
Forms ==
    {Form(8, 20, TRUE, PaddedKey(2026, 1, 4), PaddedKey(2026, 1, 9)),
     Form(8, 20, TRUE, PaddedKey(2026, 1, 9), PaddedKey(2026, 1, 4)),
     Form(2, 20, TRUE, PaddedKey(2026, 1, 4), PaddedKey(2026, 1, 9)),
     Form(8, 5, TRUE, PaddedKey(2026, 1, 4), PaddedKey(2026, 1, 9)),
     Form(8, 20, FALSE, PaddedKey(2026, 1, 4), PaddedKey(2026, 1, 9))}

MovementIds == 1 .. MaxMovements + 1

\* the clock values a createMovement call is given
ClockValues == 1 .. MaxMovements + 1

UtcHost == [legacy |-> "local", tz |-> 0]

(***************************************************************************)
(* Spec: the workout service and the badge check. The week is completed    *)
(* day by day in any order while the reward range is edited. No operation  *)
(* of this specification reads the host.                                   *)
(***************************************************************************)
Init ==
    /\ store = EmptyDoc
    /\ host = UtcHost
    /\ ret = Ret("none", TRUE)

Next ==
    \/ \E dateKey \in WeekDates : CompleteWorkout(dateKey, TheCode)
    \/ \E min \in RangeArgs, max \in RangeArgs : UpdateRewardRange(min, max, TheCode)
    \/ CheckAndUnlockBadges

Spec == Init /\ [][Next]_vars

(***************************************************************************)
(* SpecMovements: movements are created, joined, left and credited while   *)
(* the week is completed, on every host. It starts from the documents of a *)
(* user who has completed six days of the week under the default range     *)
(* (Spec reaches each of them from the empty store), so that the week is   *)
(* completed on each of its seven days.                                    *)
(***************************************************************************)
SeedDays == {days \in SUBSET WeekDates : Cardinality(days) = 6}

\* the document after completeWorkout on each of days, from the empty store
DocWithDays(days) ==
    saveData([getData(EmptyDoc, TheCode) EXCEPT !.completedDays = days])

InitMovements ==
    /\ \E days \in SeedDays : store = DocWithDays(days)
    /\ host \in Hosts
    /\ ret = Ret("none", TRUE)

NextMovements ==
    \/ \E dateKey \in WeekDates : CompleteWorkout(dateKey, TheCode)
    \/ \E form \in Forms, now \in ClockValues : CreateMovement(form, now, MaxMovements)
    \/ \E id \in MovementIds : JoinMovement(id)
    \/ \E id \in MovementIds : LeaveMovement(id)
    \/ \E id \in MovementIds :
          /\ \A i \in 1 .. Len(store.movements) : store.movements[i].totalRaised < MaxRaised
          /\ AddMovementContribution(id, WeekKey(2026, 1, 2), 1)

SpecMovements == InitMovements /\ [][NextMovements]_vars

(***************************************************************************)
(* SpecSocial: the nine operations a user reaches, friends included. It    *)
(* starts from the document of a user who has added four friends (four     *)
(* addFriend calls on the empty store; no badge is unlocked by them), so   *)
(* that the fifth friend, social_butterfly and a later removeFriend are    *)
(* within reach.                                                           *)
(***************************************************************************)
Name(text) == [text |-> text, len |-> Len(text), charsOk |-> TRUE]

SeedNames == <<Name("Ana"), Name("Ben"), Name("Cyd"), Name("Dee")>>

\* the store after addFriend on each of names[1 .. n], from the empty store,
\* each at a time of its own: the n-th friend has the id n
RECURSIVE DocWithFriends(_, _)
DocWithFriends(names, n) ==
    IF n = 0 THEN EmptyDoc
    ELSE checkAndUnlockBadgesStore(saveData(addFriendData(DocWithFriends(names, n - 1), names[n], n)))

\* a new name, a name already in the list, a one-letter name and a name with
\* a character outside the pattern
NameInputs ==
    {Name("Eve"), Name("Ana"), Name("X"),
     [text |-> "Zo!", len |-> 3, charsOk |-> FALSE]}

\* the values Date.now() + Math.random() gives in addFriend: that of the
\* first seeded friend again, and one no seeded friend has
FriendIdValues == {1, Len(SeedNames) + 1}

\* a seeded friend, the fifth friend and an id no friend has
FriendIds == {1, Len(SeedNames) + 1, Len(SeedNames) + 3}

SocialDate == DateKey(2026, 1, 4)

InitSocial ==
    /\ store = DocWithFriends(SeedNames, Len(SeedNames))
    /\ host = UtcHost
    /\ ret = Ret("none", TRUE)

NextSocial ==
    \/ CompleteWorkout(SocialDate, TheCode)
    \/ \E max \in {Num(0), Num(1)} : UpdateRewardRange(Num(1), max, TheCode)
    \/ CheckAndUnlockBadges
    \/ \E name \in NameInputs, id \in FriendIdValues : AddFriend(name, id)
    \/ \E friendId \in FriendIds : RemoveFriend(friendId)
    \/ \E friendId \in {1} : CheerFriend(friendId)
    \/ \E form \in Forms, now \in ClockValues : CreateMovement(form, now, MaxMovements)
    \/ \E id \in MovementIds : JoinMovement(id)
    \/ \E id \in MovementIds : LeaveMovement(id)

SpecSocial == InitSocial /\ [][NextSocial]_vars

(***************************************************************************)
(* Properties of the weekly reward (checked under Spec).                   *)
(***************************************************************************)
TheWeek == WeekKey(2026, 1, 2)

\* C1: once weeklyRewards holds a value for a week key, no later call
\* changes or removes that value.
C1_RewardWrittenAtMostOnce ==
    [][\A k \in DOMAIN store.weeklyRewards :
          /\ HasKey(store'.weeklyRewards, k)
          /\ store'.weeklyRewards[k] = store.weeklyRewards[k]]_vars

\* C2: every reward completeWorkout issues is an integer r with
\* minReward <= r <= maxReward, the bounds being those of the document the
\* call reads.
C2_IssuedRewardInRange ==
    [][(ret'.op = "completeWorkout" /\ ret'.reward # Null) =>
          LET data == getData(store, TheCode)
          IN  /\ IsNum(ret'.reward)
              /\ JsLE(data.minReward, ret'.reward)
              /\ JsLE(ret'.reward, data.maxReward)]_vars

\* C3: completing the seven dates of the week in any order from the empty
\* document, each of the first six calls returns weekCompleted = false and
\* reward = null, and the seventh returns weekCompleted = true with a
\* non-null reward equal to the stored weeklyRewards[weekKey].
C3_SeventhDayRewards ==
    [][(ret'.op = "completeWorkout" /\ store'.completedDays # store.completedDays) =>
          IF Cardinality(store'.completedDays) < 7
          THEN ret'.weekCompleted = FALSE /\ ret'.reward = Null
          ELSE /\ ret'.weekCompleted = TRUE
               /\ IsNum(ret'.reward)
               /\ HasKey(store'.weeklyRewards, ret'.weekKey)
               /\ store'.weeklyRewards[ret'.weekKey] = ret'.reward.v]_vars

\* the seventh date has just been completed and its reward returned
C3_Witness ==
    /\ ret.op = "completeWorkout"
    /\ ~ret.again
    /\ store.completedDays = WeekDates
    /\ ret.weekCompleted
    /\ IsNum(ret.reward)
    /\ ret.reward.v >= 1
    /\ store.weeklyRewards[TheWeek] = ret.reward.v

\* C4: completeWorkout returns a non-null reward exactly when that call
\* wrote a new entry into weeklyRewards; a call in a week that already has
\* an entry returns reward = null.
C4_RewardIffNewEntry ==
    [][ret'.op = "completeWorkout" =>
          (ret'.reward # Null <=>
              /\ ~HasKey(store.weeklyRewards, ret'.weekKey)
              /\ HasKey(store'.weeklyRewards, ret'.weekKey))]_vars

\* C5: the second of two completeWorkout(d) calls in a row leaves
\* completedDays[d] true, returns reward = null and leaves weeklyRewards
\* and every movement's totalRaised and weeklyContributions as they were.
C5_SecondCompletionIdle ==
    [][(ret'.op = "completeWorkout" /\ ret'.again) =>
          /\ ret'.dateKey \in store'.completedDays
          /\ ret'.reward = Null
          /\ store'.weeklyRewards = store.weeklyRewards
          /\ store'.movements = store.movements]_vars

(***************************************************************************)
(* Properties of the movements (checked under SpecMovements).              *)
(***************************************************************************)
\* C6: every movement satisfies totalRaised = sum of the values of its
\* weeklyContributions.
C6_TotalRaisedIsSum ==
    \A i \in 1 .. Len(store.movements) :
        LET m == store.movements[i]
        IN  m.totalRaised = SumValues(m.weeklyContributions, DOMAIN m.weeklyContributions)

\* a movement that holds a direct contribution and the week's reward
C6_Witness ==
    /\ HasKey(store.weeklyRewards, TheWeek)
    /\ \E i \in 1 .. Len(store.movements) :
           /\ HasKey(store.movements[i].weeklyContributions, TheWeek)
           /\ store.movements[i].totalRaised = store.weeklyRewards[TheWeek] + 1

\* the calendar day a date string names, as a day count
CalendarDay(k) == DaysFromCivil(k.y, k.m, k.d)

\* s <= d <= e as calendar dates
InWindow(movement, dateKey) ==
    /\ CalendarDay(movement.startDate) <= CalendarDay(dateKey)
    /\ CalendarDay(dateKey) <= CalendarDay(movement.endDate)

\* C7: when completeWorkout issues a reward r for week key k, a movement's
\* weeklyContributions[k] and totalRaised grow by r if and only if 'You' is
\* a member and the completed date lies in [startDate, endDate]; every
\* other movement, and every movement when no reward is issued, is left
\* unchanged.
C7_FanOutFrame ==
    [][ret'.op = "completeWorkout" =>
          /\ Len(store'.movements) = Len(store.movements)
          /\ \A i \in 1 .. Len(store.movements) :
                 LET m == store.movements[i]
                     k == ret'.weekKey
                     before == IF HasKey(m.weeklyContributions, k)
                               THEN m.weeklyContributions[k]
                               ELSE 0
                 IN  IF /\ ret'.reward # Null
                        /\ Includes(m.members, "You")
                        /\ InWindow(m, ret'.dateKey)
                     THEN store'.movements[i] =
                              [m EXCEPT
                                  !.weeklyContributions = Put(@, k, before + ret'.reward.v),
                                  !.totalRaised = @ + ret'.reward.v]
                     ELSE store'.movements[i] = m]_vars

\* C8: on every host, a movement with start date s and end date e counts as
\* active for a completed date d iff s <= d <= e as calendar dates,
\* d = s and d = e included.
C8_ActiveWindowInclusive ==
    \A i \in 1 .. Len(store.movements) : \A dateKey \in WeekDates :
        isMovementActiveForDate(host, store.movements[i], dateKey)
            <=> InWindow(store.movements[i], dateKey)

(***************************************************************************)
(* Properties of the badges (checked under SpecSocial).                    *)
(***************************************************************************)
Ids(seq) == {seq[i] : i \in 1 .. Len(seq)}

\* C9: no operation removes a badge id from unlockedBadges, even when the
\* metric that unlocked it falls below its threshold afterwards.
C9_BadgesOnlyGrow ==
    [][Ids(store.unlockedBadges) \subseteq Ids(store'.unlockedBadges)]_vars

\* removeFriend has just taken the list below five friends and
\* social_butterfly is still unlocked
C9_Witness ==
    /\ ret.op = "removeFriend"
    /\ ret.ok
    /\ Len(store.friends) < 5
    /\ "social_butterfly" \in Ids(store.unlockedBadges)

\* C10: the second of two checkAndUnlockBadges calls in a row returns an
\* empty list, adds nothing to unlockedBadges and does not write the
\* document.
C10_SecondCheckIdle ==
    [][(ret'.op = "checkAndUnlockBadges" /\ ret'.again) =>
          /\ ret'.newlyUnlocked = <<>>
          /\ store'.unlockedBadges = store.unlockedBadges
          /\ store' = store
          /\ ~ret'.wrote]_vars

\* a second call in a row has returned, with badges unlocked before it
C10_Witness ==
    /\ ret.op = "checkAndUnlockBadges"
    /\ ret.again
    /\ ret.newlyUnlocked = <<>>
    /\ Len(store.unlockedBadges) >= 2

(***************************************************************************)
(* Properties of the badge evaluation.                                     *)
(***************************************************************************)
\* the metric of a badge type on a document, as the catalogue describes it
Metric(data, type) ==
    CASE type = "days" -> Cardinality(data.completedDays)
      [] type = "weeks" -> Cardinality(DOMAIN data.weeklyRewards)
      [] type = "streak" -> getCurrentStreak(data)
      [] type = "earnings" -> SumValues(data.weeklyRewards, DOMAIN data.weeklyRewards)
      [] type = "movements" ->
             Cardinality({i \in 1 .. Len(data.movements) : data.movements[i].creator = "You"})
      [] type = "friends" -> Len(data.friends)

\* the ids of the definitions that are not unlocked on data and whose metric
\* has reached the requirement
DueBadges(data) ==
    {BADGE_DEFINITIONS[i].id : i \in
        {j \in 1 .. Len(BADGE_DEFINITIONS) :
            /\ BADGE_DEFINITIONS[j].id \notin Ids(data.unlockedBadges)
            /\ Metric(data, BADGE_DEFINITIONS[j].type) >= BADGE_DEFINITIONS[j].requirement}}

\* C11: a checkAndUnlockBadges call newly unlocks exactly the definitions
\* that are not yet unlocked and whose metric is >= the requirement, and
\* adds no other id to unlockedBadges.
C11_UnlocksExactlyDue ==
    [][ret'.op = "checkAndUnlockBadges" =>
          /\ Ids(ret'.newlyUnlocked) = DueBadges(store)
          /\ Ids(store'.unlockedBadges) = Ids(store.unlockedBadges) \cup DueBadges(store)]_vars

\* one completed day on a fresh document: the call has unlocked first_day
\* and nothing else
C11_Witness ==
    /\ ret.op = "checkAndUnlockBadges"
    /\ Cardinality(store.completedDays) = 1
    /\ ret.newlyUnlocked = <<"first_day">>
    /\ store.unlockedBadges = <<"first_day">>

\* the ids of the twelve static definitions
BadgeIds == {BADGE_DEFINITIONS[i].id : i \in 1 .. Len(BADGE_DEFINITIONS)}

\* a list of catalogue ids without a repeated id
EachOnce(seq) ==
    /\ Ids(seq) \subseteq BadgeIds
    /\ \A i, j \in 1 .. Len(seq) : seq[i] = seq[j] => i = j

\* C12: unlockedBadges never holds a duplicate id or an id outside the
\* twelve definitions, and a badge returned by one checkAndUnlockBadges
\* call is returned by no other: a returned list has no repeated id, holds
\* no id that was unlocked before the call, and every id it holds is in
\* unlockedBadges from then on.
C12_EachBadgeOnce ==
    [][/\ EachOnce(store.unlockedBadges)
       /\ EachOnce(store'.unlockedBadges)
       /\ Ids(store.unlockedBadges) \subseteq Ids(store'.unlockedBadges)
       /\ ret'.op = "checkAndUnlockBadges" =>
              /\ EachOnce(ret'.newlyUnlocked)
              /\ Ids(ret'.newlyUnlocked) \cap Ids(store.unlockedBadges) = {}
              /\ Ids(ret'.newlyUnlocked) \subseteq Ids(store'.unlockedBadges)]_vars

\* a call has returned a badge while other badges, unlocked by earlier
\* calls, were already in the list
C12_Witness ==
    /\ ret.op = "checkAndUnlockBadges"
    /\ Len(ret.newlyUnlocked) = 1
    /\ Len(store.unlockedBadges) = 3

\* the place of a badge id in the declaration order of the catalogue
DeclarationIndex(id) ==
    CHOOSE i \in 1 .. Len(BADGE_DEFINITIONS) : BADGE_DEFINITIONS[i].id = id

\* C13: the list a checkAndUnlockBadges call returns is in declaration
\* order, the celebration the call schedules carries the badge that comes
\* first in declaration order among those it unlocked, and no celebration
\* is scheduled when nothing is newly unlocked.
C13_CelebrationFirstDeclared ==
    [][ret'.op = "checkAndUnlockBadges" =>
          LET new == ret'.newlyUnlocked
          IN  /\ \A i, j \in 1 .. Len(new) :
                     i < j => DeclarationIndex(new[i]) < DeclarationIndex(new[j])
              /\ IF new = <<>>
                 THEN ret'.celebration = NoBadge
                 ELSE /\ ret'.celebration \in Ids(new)
                      /\ \A id \in Ids(new) :
                             DeclarationIndex(ret'.celebration) <= DeclarationIndex(id)]_vars

\* one call has unlocked first_day and week_warrior together and scheduled
\* the celebration of first_day
C13_Witness ==
    /\ ret.op = "checkAndUnlockBadges"
    /\ ret.newlyUnlocked = <<"first_day", "week_warrior">>
    /\ ret.celebration = "first_day"

(***************************************************************************)
(* Properties of the reward range.                                         *)
(***************************************************************************)
\* C14: updateRewardRange(min, max) with min > max or min < 1 returns false
\* and leaves the whole document unchanged; with 1 <= min <= max it returns
\* true and the stored range becomes exactly (min, max).
C14_RangeValidation ==
    [][\A min \in RangeArgs, max \in RangeArgs :
          UpdateRewardRange(min, max, TheCode) =>
              /\ ((IsNum(min) /\ IsNum(max) /\ min.v > max.v) \/ (IsNum(min) /\ min.v < 1)) =>
                     (ret'.ok = FALSE /\ store' = store)
              /\ (IsNum(min) /\ IsNum(max) /\ 1 <= min.v /\ min.v <= max.v) =>
                     /\ ret'.ok = TRUE
                     /\ store'.minReward = min
                     /\ store'.maxReward = max]_vars

\* a call has been rejected and the range stored before it, (1, 2), is
\* still there
C14_Witness ==
    /\ ret.op = "updateRewardRange"
    /\ ret.ok = FALSE
    /\ store.minReward = Num(1)
    /\ store.maxReward = Num(2)

(***************************************************************************)
(* SpecIntegers: Spec with updateRewardRange called with integers only.    *)
(***************************************************************************)
IntegerArgs == {Num(n) : n \in 0 .. MaxRangeArg}

NextIntegers ==
    \/ \E dateKey \in WeekDates : CompleteWorkout(dateKey, TheCode)
    \/ \E min \in IntegerArgs, max \in IntegerArgs : UpdateRewardRange(min, max, TheCode)
    \/ CheckAndUnlockBadges

SpecIntegers == Init /\ [][NextIntegers]_vars

\* C15: from the default document, whatever integers updateRewardRange is
\* called with and whatever else is called in between, the range the
\* document holds satisfies 1 <= minReward <= maxReward.
C15_RangeInvariant ==
    LET data == getData(store, TheCode)
    IN  /\ IsNum(data.minReward)
        /\ IsNum(data.maxReward)
        /\ 1 <= data.minReward.v
        /\ data.minReward.v <= data.maxReward.v

\* a rejected call on a document whose range was set to (2, 2) before
C15_Witness ==
    /\ ret.op = "updateRewardRange"
    /\ ret.ok = FALSE
    /\ store.minReward = Num(2)
    /\ store.maxReward = Num(2)

(***************************************************************************)
(* SpecQuota: the workout service on a localStorage whose setItem may      *)
(* throw (quota exceeded). storage.set catches the error and returns       *)
(* false; saveData drops that value.                                       *)
(***************************************************************************)
\* storage.set when setItem throws: the item stays as it was
storageSetFailing(stored, data) == stored

\* completeWorkout when the write fails
CompleteWorkoutUnsaved(dateKey, code) ==
    LET data == getData(store, code)
        marked == [data EXCEPT !.completedDays = @ \cup {dateKey}]
        draws == IF rewardDue(marked, dateKey)
                 THEN randomInt(data.minReward, data.maxReward)
                 ELSE {0}
    IN  \E reward \in draws :
            LET result == completeWorkoutResult(store, dateKey, code, reward)
            IN  /\ store' = storageSetFailing(store,
                                 completeWorkoutData(host, store, dateKey, code, reward))
                /\ ret' = [Ret("completeWorkout", result.success) EXCEPT
                              !.dateKey = dateKey,
                              !.weekKey = result.weekKey,
                              !.weekCompleted = result.weekCompleted,
                              !.reward = result.reward,
                              !.wrote = FALSE,
                              !.again = (ret.op = "completeWorkout" /\ ret.dateKey = dateKey)]
                /\ UNCHANGED host

\* updateRewardRange when the write fails
UpdateRewardRangeUnsaved(min, max, code) ==
    \/ /\ rangeRejected(min, max)
       /\ ret' = Ret("updateRewardRange", FALSE)
       /\ UNCHANGED <<store, host>>
    \/ /\ ~rangeRejected(min, max)
       /\ store' = storageSetFailing(store, updateRewardRangeData(store, min, max, code))
       /\ ret' = [Ret("updateRewardRange", TRUE) EXCEPT !.wrote = FALSE]
       /\ UNCHANGED host

NextQuota ==
    \/ \E dateKey \in WeekDates : CompleteWorkout(dateKey, TheCode)
    \/ \E dateKey \in WeekDates : CompleteWorkoutUnsaved(dateKey, TheCode)
    \/ \E max \in {Num(0), Num(1)} : UpdateRewardRange(Num(1), max, TheCode)
    \/ \E max \in {Num(0), Num(1)} : UpdateRewardRangeUnsaved(Num(1), max, TheCode)

SpecQuota == Init /\ [][NextQuota]_vars

\* C16: completeWorkout and updateRewardRange do not report success for a
\* change that was not persisted: a call whose write failed returns a
\* failed result.
C16_WriteFailureReported ==
    (ret.op \in {"completeWorkout", "updateRewardRange"} /\ ret.ok) => ret.wrote

(***************************************************************************)
(* SpecPartialWeeks: completeWorkout on the partial first week of January  *)
(* 2026 (Thursday 1 to Saturday 3), the partial last week of March 2026    *)
(* (Sunday 29 to Tuesday 31) and the full week of 4 to 10 January, from    *)
(* the documents with six days of the full week completed.                 *)
(***************************************************************************)
PartialWeekDates ==
    {DateKey(2026, 1, d) : d \in 1 .. 3} \cup {DateKey(2026, 3, d) : d \in 29 .. 31}

InitPartialWeeks ==
    /\ \E days \in SeedDays : store = DocWithDays(days)
    /\ host = UtcHost
    /\ ret = Ret("none", TRUE)

NextPartialWeeks ==
    \/ \E dateKey \in WeekDates : CompleteWorkout(dateKey, TheCode)
    \/ \E dateKey \in PartialWeekDates : CompleteWorkout(dateKey, TheCode)

SpecPartialWeeks == InitPartialWeeks /\ [][NextPartialWeeks]_vars

\* the days of its month a week bucket contains
BucketDays(weekKey) ==
    {day \in 1 .. DaysInMonth(weekKey.y, weekKey.m) :
        getWeekNumberInMonth(NewDate(weekKey.y, weekKey.m - 1, day)) = weekKey.w}

\* the buckets the model's dates fall in, with their sizes
bucketSize ==
    [weekKey \in {WeekKeyOf(d) : d \in WeekDates \cup PartialWeekDates} |->
        Cardinality(BucketDays(weekKey))]

\* C17: a bucket with fewer than 7 days of its month never completes:
\* every completeWorkout call for a date in it returns weekCompleted =
\* false (and no reward), and weeklyRewards never has a key for it.
C17_PartialWeekNeverCompletes ==
    /\ (ret.op = "completeWorkout" /\ bucketSize[ret.weekKey] < 7) =>
           (ret.weekCompleted = FALSE /\ ret.reward = Null)
    /\ \A weekKey \in DOMAIN store.weeklyRewards : bucketSize[weekKey] >= 7

\* every day of both partial weeks is completed, the last of them just
\* now, and the full week has its reward
C17_Witness ==
    /\ ret.op = "completeWorkout"
    /\ ret.dateKey = DateKey(2026, 3, 31)
    /\ PartialWeekDates \subseteq store.completedDays
    /\ DOMAIN store.weeklyRewards = {TheWeek}

(***************************************************************************)
(* SpecCalendar: getWeekNumberInMonth applied to each date of a 28-year    *)
(* span, in which every first weekday meets every month length.            *)
(***************************************************************************)
FirstYear == 2000
LastYear == 2027

CalendarDates ==
    {DateKey(y, m, d) : y \in FirstYear .. LastYear, m \in 1 .. 12, d \in 1 .. 31}

InitCalendar ==
    /\ store = EmptyDoc
    /\ host = UtcHost
    /\ \E date \in CalendarDates :
           /\ date.d <= DaysInMonth(date.y, date.m)
           /\ ret = [Ret("none", TRUE) EXCEPT !.dateKey = date]

\* getWeekNumberInMonth(new Date(year, month - 1, day)) on the drawn date
GetWeekNumberInMonth ==
    /\ ret.op = "none"
    /\ LET date == NewDate(ret.dateKey.y, ret.dateKey.m - 1, ret.dateKey.d)
       IN  ret' = [Ret("getWeekNumberInMonth", TRUE) EXCEPT
                      !.dateKey = ret.dateKey,
                      !.weekKey = WeekKey(date.y, date.m, getWeekNumberInMonth(date))]
    /\ UNCHANGED <<store, host>>

SpecCalendar == InitCalendar /\ [][GetWeekNumberInMonth]_vars

\* the 1-based calendar row of a day: one more than the number of Sundays
\* among day 2 .. day d of its month
CalendarRow(date) ==
    1 + Cardinality({x \in 2 .. date.d : GetDay([date EXCEPT !.d = x]) = 0})

\* the day count of the Sunday that starts the calendar week of a date
WeekStart(date) == DaysFromCivil(date.y, date.m, date.d) - GetDay(date)

\* C18: the week number of a day is the 1-based index of the
\* Sunday-to-Saturday calendar row that holds it; two days of a month share
\* a week number iff they lie in the same Sunday-started week, a bucket
\* holds at most 7 days, and the week number is between 1 and 6.
C18_WeekNumberIsCalendarRow ==
    ret.op = "getWeekNumberInMonth" =>
        LET date == ret.dateKey
            weekNum == ret.weekKey.w
            days == 1 .. DaysInMonth(date.y, date.m)
            sameNumber == {x \in days :
                              getWeekNumberInMonth([date EXCEPT !.d = x]) = weekNum}
        IN  /\ weekNum = CalendarRow(date)
            /\ weekNum \in 1 .. 6
            /\ sameNumber = {x \in days : WeekStart([date EXCEPT !.d = x]) = WeekStart(date)}
            /\ Cardinality(sameNumber) <= 7

\* the 31st of a month that starts on a Friday or Saturday: row 6
C18_Witness ==
    /\ ret.op = "getWeekNumberInMonth"
    /\ ret.dateKey.d = 31
    /\ ret.weekKey.w = 6

(***************************************************************************)
(* SpecWeekKeys: completeWorkout on two full weeks of one year, 1 to 7     *)
(* February 2026 (week 1) and 4 to 10 October 2026 (week 2), from the      *)
(* documents with six days of each completed.                              *)
(***************************************************************************)
FebruaryWeek == {DateKey(2026, 2, d) : d \in 1 .. 7}
OctoberWeek == {DateKey(2026, 10, d) : d \in 4 .. 10}

\* the first or the last day of each week is still open
OpenDates ==
    {DateKey(2026, 2, 1), DateKey(2026, 2, 7), DateKey(2026, 10, 4), DateKey(2026, 10, 10)}

InitWeekKeys ==
    /\ \E f \in FebruaryWeek \cap OpenDates, o \in OctoberWeek \cap OpenDates :
           store = DocWithDays((FebruaryWeek \cup OctoberWeek) \ {f, o})
    /\ host = UtcHost
    /\ ret = Ret("none", TRUE)

NextWeekKeys == \E dateKey \in OpenDates : CompleteWorkout(dateKey, TheCode)

SpecWeekKeys == InitWeekKeys /\ [][NextWeekKeys]_vars

\* chronological order of two week keys of one year: month, then week
ChronologicallyBefore(a, b) == a.m < b.m \/ (a.m = b.m /\ a.w < b.w)

\* C19: for any two week keys completeWorkout has built for the same year,
\* their lexicographic string order agrees with their chronological order.
C19_WeekKeysSortChronologically ==
    \A a \in DOMAIN store.weeklyRewards, b \in DOMAIN store.weeklyRewards :
        a.y = b.y => (WeekKeyStringLess(a, b) <=> ChronologicallyBefore(a, b))

(***************************************************************************)
(* SpecPadded: completeWorkout on the week 4 to 10 January 2026 with date  *)
(* keys in both forms, "2026-1-4" of the calendar and "2026-01-04" of      *)
(* getTodayString, from the documents with six unpadded days completed.    *)
(***************************************************************************)
PaddedDates == {PaddedKey(2026, 1, 4), PaddedKey(2026, 1, 10)}

InitPadded ==
    /\ \E days \in SeedDays : store = DocWithDays(days)
    /\ host = UtcHost
    /\ ret = Ret("none", TRUE)

NextPadded ==
    \/ \E dateKey \in WeekDates : CompleteWorkout(dateKey, TheCode)
    \/ \E dateKey \in PaddedDates : CompleteWorkout(dateKey, TheCode)

SpecPadded == InitPadded /\ [][NextPadded]_vars

\* the calendar dates recorded in completedDays, under either form of key,
\* that fall in the (year, month, week) bucket
RecordedDates(data, weekKey) ==
    {CalendarDay(k) : k \in {c \in data.completedDays : WeekKeyOf(c) = weekKey}}

\* C20: for every date key, unpadded or zero-padded, the returned
\* weekCompleted is true exactly when at least 7 distinct calendar dates
\* recorded in completedDays fall in that key's (year, month, week) bucket.
C20_WeekCompletedCountsDates ==
    ret.op = "completeWorkout" =>
        (ret.weekCompleted <=> Cardinality(RecordedDates(store, ret.weekKey)) >= 7)

(***************************************************************************)
(* Properties of the streak metric and of stored rewards (checked under    *)
(* Spec).                                                                  *)
(***************************************************************************)
\* C21: in every state reachable through the core operations the streak
\* metric equals the number of keys in weeklyRewards.
C21_StreakEqualsWeeks ==
    getCurrentStreak(store) = Cardinality(DOMAIN store.weeklyRewards)

(***************************************************************************)
(* Properties of the shared document across the services (checked under    *)
(* SpecSocial).                                                            *)
(***************************************************************************)
\* C22: completedDays is monotonic: once completeWorkout has recorded a
\* date key, no operation of any service removes it.
C22_CompletedDaysOnlyGrow ==
    [][store.completedDays \subseteq store'.completedDays]_vars

\* a friend was cheered, by a write of the friend service, on a document
\* that still holds the completed day
C22_Witness ==
    /\ ret.op = "cheerFriend"
    /\ ret.ok
    /\ SocialDate \in store.completedDays

(***************************************************************************)
(* SpecInvite: the reads of the invite code, exportData of the workout     *)
(* service and getInviteCode of the friends page, among the writes of the  *)
(* workout and friend services, from the empty store. Each call that may   *)
(* generate a code draws the code generateInviteCode returns.              *)
(***************************************************************************)
Codes == {"WALKAAAAAA", "WALKBBBBBB"}

\* exportData: getData(), nothing is written
ExportData(code) ==
    /\ ret' = [Ret("exportData", TRUE) EXCEPT !.inviteCode = getData(store, code).inviteCode]
    /\ UNCHANGED <<store, host>>

\* the document getInviteCode of the friends page leaves in the store: a
\* generated code is written when the stored document has none
getInviteCodeStore(stored, code) ==
    IF stored.inviteCode = NoCode
    THEN storageSet([stored EXCEPT !.inviteCode = code])
    ELSE stored

GetInviteCode(code) ==
    /\ store' = getInviteCodeStore(store, code)
    /\ ret' = [Ret("getInviteCode", TRUE) EXCEPT
                  !.inviteCode = getInviteCodeStore(store, code).inviteCode,
                  !.wrote = (store.inviteCode = NoCode)]
    /\ UNCHANGED host

InviteNames == {Name("Eve"), Name("Ana")}

NextInvite ==
    \/ \E code \in Codes : ExportData(code)
    \/ \E code \in Codes : GetInviteCode(code)
    \/ \E code \in Codes : CompleteWorkout(SocialDate, code)
    \/ \E name \in InviteNames, id \in FriendIdValues : AddFriend(name, id)
    \/ \E friendId \in {1} : CheerFriend(friendId)

SpecInvite == Init /\ [][NextInvite]_vars

InviteReads == {"exportData", "getInviteCode"}

\* C23: once a document exists in the store, whichever service wrote it,
\* every later read of inviteCode yields the same code, and no operation
\* replaces a stored code.
C23_InviteCodeStable ==
    [][/\ store.inviteCode # NoCode => store'.inviteCode = store.inviteCode
       /\ (store.exists /\ ret.op \in InviteReads /\ ret'.op \in InviteReads)
              => ret'.inviteCode = ret.inviteCode]_vars

\* C24: at most one cheer is recorded per friend: the first cheerFriend(f)
\* returns true and sets the cheer key of f; every later cheerFriend(f)
\* returns false and leaves the document unchanged; and no operation,
\* removeFriend included, clears a cheer key once set.
C24_OneCheerPerFriend ==
    [][/\ store.cheers \subseteq store'.cheers
       /\ ret'.op = "cheerFriend" =>
              IF 1 \in store.cheers
              THEN ret'.ok = FALSE /\ store' = store
              ELSE ret'.ok = TRUE /\ store'.cheers = store.cheers \cup {1}]_vars

\* the friend was cheered and then removed, and a second cheer was refused
C24_Witness ==
    /\ ret.op = "cheerFriend"
    /\ ret.ok = FALSE
    /\ 1 \in store.cheers
    /\ findFriend(store, 1) = 0

(***************************************************************************)
(* SpecTabs: two execution contexts (tabs) on one store. A tab runs        *)
(* completeWorkout or checkAndUnlockBadges in two steps, the load          *)
(* (getData) and the save (the rest of the function, ending in             *)
(* storage.set), and the steps of the two tabs interleave;                 *)
(* checkAndUnlockBadges reads the store three more times between its load  *)
(* and its save (getTotalCompletedDays, getTotalEarnings and               *)
(* getCurrentStreak each call getData), each read a step of its own. In    *)
(* this specification host carries, besides the engine, the tabs: for each *)
(* its position (pc: idle, the function it has loaded the document in, or  *)
(* the value checkAndUnlockBadges has read last), the document it loaded   *)
(* (data), the date key it was called with, the three values read (days,   *)
(* earnings, streak) and the date keys whose completeWorkout call has      *)
(* returned success in it (done).                                          *)
(***************************************************************************)
Tabs == {1, 2}

TabDates == {DateKey(2026, 1, 4), DateKey(2026, 1, 5)}

IdleTab(done) ==
    [pc |-> "idle", data |-> EmptyDoc, dateKey |-> NoDate,
     days |-> 0, earnings |-> 0, streak |-> 0, done |-> done]

\* localStorage.setItem(key, JSON.stringify(value)): the item is replaced
\* by the document of the writer, whatever the store held
storageSetOver(stored, data) == storageSet(data)

InitTabs ==
    /\ store = EmptyDoc
    /\ host = [legacy |-> "local", tz |-> 0, tabs |-> [t \in Tabs |-> IdleTab({})]]
    /\ ret = Ret("none", TRUE)

\* completeWorkout, its first statement: const data = getData()
TabLoadCompleteWorkout(t, dateKey, code) ==
    /\ host.tabs[t].pc = "idle"
    /\ host' = [host EXCEPT !.tabs[t] = [@ EXCEPT !.pc = "completeWorkout",
                                                   !.data = getData(store, code),
                                                   !.dateKey = dateKey]]
    /\ UNCHANGED <<store, ret>>

\* completeWorkout from the second statement to its return
TabSaveCompleteWorkout(t, code) ==
    /\ host.tabs[t].pc = "completeWorkout"
    /\ LET data == host.tabs[t].data
           dateKey == host.tabs[t].dateKey
           marked == [data EXCEPT !.completedDays = @ \cup {dateKey}]
           draws == IF rewardDue(marked, dateKey)
                    THEN randomInt(data.minReward, data.maxReward)
                    ELSE {0}
       IN  \E reward \in draws :
               LET result == completeWorkoutResult(data, dateKey, code, reward)
               IN  /\ store' = storageSetOver(store,
                                   completeWorkoutData(host, data, dateKey, code, reward))
                   /\ ret' = [Ret("completeWorkout", result.success) EXCEPT
                                 !.dateKey = dateKey,
                                 !.weekKey = result.weekKey,
                                 !.weekCompleted = result.weekCompleted,
                                 !.reward = result.reward,
                                 !.wrote = TRUE]
                   /\ host' = [host EXCEPT
                                  !.tabs[t] = IdleTab(host.tabs[t].done \cup {dateKey})]

\* checkAndUnlockBadges, its first statement: const data = getData()
TabLoadCheckAndUnlockBadges(t) ==
    /\ host.tabs[t].pc = "idle"
    /\ host' = [host EXCEPT !.tabs[t] = [@ EXCEPT !.pc = "checkAndUnlockBadges",
                                                   !.data = getRawData(store)]]
    /\ UNCHANGED <<store, ret>>

\* getCurrentProgress, its first statement: getTotalCompletedDays() reads
\* the store again
TabReadDays(t) ==
    /\ host.tabs[t].pc = "checkAndUnlockBadges"
    /\ host' = [host EXCEPT !.tabs[t] = [@ EXCEPT !.pc = "totalDays",
                                                   !.days = getTotalCompletedDays(store)]]
    /\ UNCHANGED <<store, ret>>

\* getCurrentProgress, its second statement: getTotalEarnings() reads the
\* store again
TabReadEarnings(t) ==
    /\ host.tabs[t].pc = "totalDays"
    /\ host' = [host EXCEPT !.tabs[t] = [@ EXCEPT !.pc = "totalEarnings",
                                                   !.earnings = getTotalEarnings(store)]]
    /\ UNCHANGED <<store, ret>>

\* getCurrentProgress, its third statement: getCurrentStreak() reads the
\* store again
TabReadStreak(t) ==
    /\ host.tabs[t].pc = "totalEarnings"
    /\ host' = [host EXCEPT !.tabs[t] = [@ EXCEPT !.pc = "currentStreak",
                                                   !.streak = getCurrentStreak(store)]]
    /\ UNCHANGED <<store, ret>>

\* checkAndUnlockBadges from there to its return: weeks, movements and
\* friends are counted on the document loaded, the badges are pushed onto
\* its list and it is saved when a badge was unlocked
TabSaveCheckAndUnlockBadges(t) ==
    /\ host.tabs[t].pc = "currentStreak"
    /\ LET data == host.tabs[t].data
           progress == [getCurrentProgress(data) EXCEPT
                           !.days = host.tabs[t].days,
                           !.earnings = host.tabs[t].earnings,
                           !.streak = host.tabs[t].streak]
           new == newlyUnlockedFrom(1, data.unlockedBadges, progress)
       IN  /\ store' = IF Len(new) > 0
                       THEN storageSetOver(store, [data EXCEPT !.unlockedBadges = @ \o new])
                       ELSE store
           /\ ret' = [Ret("checkAndUnlockBadges", TRUE) EXCEPT
                         !.newlyUnlocked = new,
                         !.celebration = IF Len(new) > 0 THEN new[1] ELSE NoBadge,
                         !.wrote = Len(new) > 0]
           /\ host' = [host EXCEPT !.tabs[t] = IdleTab(host.tabs[t].done)]

NextTabs ==
    \/ \E t \in Tabs, dateKey \in TabDates : TabLoadCompleteWorkout(t, dateKey, TheCode)
    \/ \E t \in Tabs : TabSaveCompleteWorkout(t, TheCode)
    \/ \E t \in Tabs : TabLoadCheckAndUnlockBadges(t)
    \/ \E t \in Tabs : TabReadDays(t)
    \/ \E t \in Tabs : TabReadEarnings(t)
    \/ \E t \in Tabs : TabReadStreak(t)
    \/ \E t \in Tabs : TabSaveCheckAndUnlockBadges(t)

SpecTabs == InitTabs /\ [][NextTabs]_vars

\* C25: when the load and save steps of two tabs interleave, the document
\* in the store after a save is exactly the document of that writer, built
\* from what the writer loaded with no merge of what the store held: a day
\* the writer had not loaded is absent after its save.
C25_LastWriterWins ==
    [][\A t \in Tabs :
          (host.tabs[t].pc # "idle" /\ host'.tabs[t].pc = "idle" /\ ret'.wrote) =>
              /\ store'.completedDays =
                     host.tabs[t].data.completedDays \cup
                         (IF host.tabs[t].pc = "completeWorkout"
                          THEN {host.tabs[t].dateKey} ELSE {})
              /\ \E new \in {<<>>, ret'.newlyUnlocked} :
                     store'.unlockedBadges = host.tabs[t].data.unlockedBadges \o new]_vars

\* a day whose completeWorkout returned success in one tab is absent from
\* the store after the save of the other tab
C25_Witness ==
    /\ ret.wrote
    /\ \E t \in Tabs : \E d \in host.tabs[t].done : d \notin store.completedDays

(***************************************************************************)
(* SpecOutOfRange: completeWorkout on the week 1 to 7 February 2026 and on *)
(* the date keys "2026-2-29", "2026-2-30" and "2026-2-31", days February   *)
(* 2026 does not have, from the documents with six days of the week        *)
(* completed. new Date(2026, 1, 30) rolls over to 2 March, whose week      *)
(* number in March is 1, and the week key takes the month of the string:   *)
(* "2026-2-week1", the bucket of 1 to 7 February.                          *)
(***************************************************************************)
OutOfRangeDates == {DateKey(2026, 2, d) : d \in 29 .. 31}

InitOutOfRange ==
    /\ \E open \in FebruaryWeek : store = DocWithDays(FebruaryWeek \ {open})
    /\ host = UtcHost
    /\ ret = Ret("none", TRUE)

NextOutOfRange ==
    \/ \E dateKey \in FebruaryWeek : CompleteWorkout(dateKey, TheCode)
    \/ \E dateKey \in OutOfRangeDates : CompleteWorkout(dateKey, TheCode)

SpecOutOfRange == InitOutOfRange /\ [][NextOutOfRange]_vars

\* the day of the key is past the end of the key's month
OutOfRange(dateKey) == dateKey.d > daysInMonthOf[dateKey.y][dateKey.m]

\* C26: completeWorkout never rejects a date key: it returns success,
\* records the key and persists; for a date outside the month's range
\* weekCompleted is false and no reward is issued.
C26_OutOfRangeDegenerate ==
    ret.op = "completeWorkout" =>
        /\ ret.ok
        /\ ret.wrote
        /\ ret.dateKey \in store.completedDays
        /\ OutOfRange(ret.dateKey) => (~ret.weekCompleted /\ ret.reward = Null)

\* C27: a reward implies a completed week: for every key present in
\* weeklyRewards the stored value is a positive integer and all 7 calendar
\* dates of the key's bucket are present in completedDays.
C27_RewardImpliesCompleteWeek ==
    \A k \in DOMAIN store.weeklyRewards :
        /\ store.weeklyRewards[k] >= 1
        /\ Cardinality(BucketDays(k)) = 7
        /\ \A day \in BucketDays(k) : DateKey(k.y, k.m, day) \in store.completedDays

(***************************************************************************)
(* SpecMembership: completeWorkout, createMovement, joinMovement and       *)
(* leaveMovement, on every host, from the documents with six days of the   *)
(* week completed.                                                         *)
(***************************************************************************)
NextMembership ==
    \/ \E dateKey \in WeekDates : CompleteWorkout(dateKey, TheCode)
    \/ \E form \in Forms, now \in ClockValues : CreateMovement(form, now, MaxMovements)
    \/ \E id \in MovementIds : JoinMovement(id)
    \/ \E id \in MovementIds : LeaveMovement(id)

SpecMembership == InitMovements /\ [][NextMembership]_vars

\* C28: each movement receives at most one contribution per week: for
\* every movement m and every key k of m.weeklyContributions,
\* m.weeklyContributions[k] = weeklyRewards[k], and m.totalRaised is at
\* most the sum of all weeklyRewards values.
C28_OneContributionPerWeek ==
    \A i \in 1 .. Len(store.movements) :
        LET m == store.movements[i]
        IN  /\ \A k \in DOMAIN m.weeklyContributions :
                   /\ HasKey(store.weeklyRewards, k)
                   /\ m.weeklyContributions[k] = store.weeklyRewards[k]
            /\ m.totalRaised <= getTotalEarnings(store)

\* a movement holds the week's contribution and completeWorkout was called
\* again on the day that completed the week
C28_Witness ==
    /\ ret.op = "completeWorkout"
    /\ ret.again
    /\ Len(store.movements) = 1
    /\ HasKey(store.movements[1].weeklyContributions, TheWeek)
    /\ store.movements[1].totalRaised >= 1

(***************************************************************************)
(* SpecClock: createMovement, joinMovement and leaveMovement with one      *)
(* movement more than the other specifications hold, so that two           *)
(* movements created in the same millisecond, which get the same id, are   *)
(* within reach. joinMovement and leaveMovement find the first movement    *)
(* that carries the id given and act on it.                                *)
(***************************************************************************)
NextClock ==
    \/ \E form \in Forms, now \in ClockValues : CreateMovement(form, now, MaxMovements + 1)
    \/ \E id \in MovementIds : JoinMovement(id)
    \/ \E id \in MovementIds : LeaveMovement(id)

SpecClock == InitMovements /\ [][NextClock]_vars

\* the number of times 'You' occurs in a members list
TimesYou(members) == Cardinality({j \in 1 .. Len(members) : members[j] = "You"})

\* the local user is a member of the movement joinMovement and
\* leaveMovement address by this id: the first that carries it
IsMember(stored, movementId) ==
    LET i == findMovement(stored, movementId)
    IN  i # 0 /\ Includes(stored.movements[i].members, "You")

\* C29: each movement's members list contains 'You' at most once:
\* createMovement stores members = [creator] with totalRaised = 0 and empty
\* weeklyContributions, joinMovement by a current member and leaveMovement
\* by a non-member (or for an unknown id) return false and leave the
\* document unchanged, and leaveMovement followed by joinMovement restores
\* membership (a leave by a member returns true and ends the membership, a
\* join by a non-member returns true and makes the user a member).
C29_YouAtMostOnce ==
    [][/\ \A i \in 1 .. Len(store'.movements) : TimesYou(store'.movements[i].members) <= 1
       /\ (ret'.op = "createMovement" /\ ret'.ok) =>
              LET m == store'.movements[Len(store'.movements)]
              IN  /\ Len(store'.movements) = Len(store.movements) + 1
                  /\ m.members = <<m.creator>>
                  /\ m.totalRaised = 0
                  /\ m.weeklyContributions = EmptyMap
       /\ \A id \in MovementIds :
              /\ JoinMovement(id) =>
                     IF findMovement(store, id) = 0 \/ IsMember(store, id)
                     THEN ret'.ok = FALSE /\ store' = store
                     ELSE ret'.ok = TRUE /\ IsMember(store', id)
              /\ LeaveMovement(id) =>
                     IF ~IsMember(store, id)
                     THEN ret'.ok = FALSE /\ store' = store
                     ELSE ret'.ok = TRUE /\ ~IsMember(store', id)]_vars

\* two movements carry one id, and the creator has left the first of them
\* and joined it again
C29_Witness ==
    /\ ret.op = "joinMovement"
    /\ ret.ok
    /\ Len(store.movements) = 2
    /\ store.movements[1].id = store.movements[2].id
    /\ store.movements[1].members = <<"You">>

(***************************************************************************)
(* SpecHandlers: the operations of SpecSocial as the pages call them. A    *)
(* day is completed through handleCompleteWorkout of the calendar page,    *)
(* which calls completeWorkout and then window.checkAndUnlockBadges (set   *)
(* by the badge service when its module is loaded).                        *)
(***************************************************************************)
\* the handler returning without the badge check
handleCompleteWorkoutStoreUnchecked(saved) == saved

\* the store after handleCompleteWorkout; saved is the store completeWorkout
\* left (its result.success is always true)
handleCompleteWorkoutStore(saved) == checkAndUnlockBadgesStore(saved)

HandleCompleteWorkout(dateKey, code) ==
    LET data == getData(store, code)
        marked == [data EXCEPT !.completedDays = @ \cup {dateKey}]
        draws == IF rewardDue(marked, dateKey)
                 THEN randomInt(data.minReward, data.maxReward)
                 ELSE {0}
    IN  \E reward \in draws :
            LET result == completeWorkoutResult(store, dateKey, code, reward)
                saved == saveData(completeWorkoutData(host, store, dateKey, code, reward))
            IN  /\ store' = handleCompleteWorkoutStore(saved)
                /\ ret' = [Ret("handleCompleteWorkout", result.success) EXCEPT
                              !.dateKey = dateKey,
                              !.weekKey = result.weekKey,
                              !.weekCompleted = result.weekCompleted,
                              !.reward = result.reward,
                              !.newlyUnlocked = newlyUnlocked(saved),
                              !.celebration = celebrated(saved),
                              !.wrote = TRUE,
                              !.again = (ret.op = "handleCompleteWorkout"
                                            /\ ret.dateKey = dateKey)]
                /\ UNCHANGED host

NextHandlers ==
    \/ HandleCompleteWorkout(SocialDate, TheCode)
    \/ \E max \in {Num(0), Num(1)} : UpdateRewardRange(Num(1), max, TheCode)
    \/ CheckAndUnlockBadges
    \/ \E name \in NameInputs, id \in FriendIdValues : AddFriend(name, id)
    \/ \E friendId \in FriendIds : RemoveFriend(friendId)
    \/ \E friendId \in {1} : CheerFriend(friendId)
    \/ \E form \in Forms, now \in ClockValues : CreateMovement(form, now, MaxMovements)
    \/ \E id \in MovementIds : JoinMovement(id)
    \/ \E id \in MovementIds : LeaveMovement(id)

SpecHandlers == InitSocial /\ [][NextHandlers]_vars

\* C30: badge evaluation follows every metric-raising user action before
\* control returns to the user: after handleCompleteWorkout, a successful
\* createMovement or a successful addFriend, and in every state at rest,
\* every badge whose metric is >= its requirement is in unlockedBadges.
C30_NoEarnedBadgeLocked == DueBadges(store) = {}

\* the three metric-raising actions have each unlocked their badge, the
\* handler last
C30_Witness ==
    /\ ret.op = "handleCompleteWorkout"
    /\ ret.newlyUnlocked = <<"first_day">>
    /\ Ids(store.unlockedBadges) = {"first_day", "movement_maker", "social_butterfly"}

====
